---- MODULE Spec2Model ----
(***************************************************************************)
(* The live voice conversation of features/LiveConvo.tsx: the component's  *)
(* React state and refs, the asynchronous startConversation, the           *)
(* synchronous stopConversation, and the four callbacks handed to          *)
(* ai.live.connect (onopen, onmessage, onerror, onclose).                  *)
(*                                                                         *)
(* Every session attempt (one run of startConversation past its guard) has *)
(* an identity 1..MaxAttempts.  The objects an attempt creates (microphone *)
(* stream, the two audio contexts, the two capture nodes, the transport    *)
(* session and the promise of it) are named by the attempt, and a ref of   *)
(* the component holds 0 (null) or the attempt whose object it points to.  *)
(* One action is one JavaScript task: a handler runs to completion,        *)
(* together with the microtasks it queues.                                 *)
(***************************************************************************)
EXTENDS Integers, Sequences, FiniteSets, TLC

\* ---- bounds of the model ----
MaxAttempts == 2      \* session attempts in one run (life cycle)
MaxSessions == 1      \* session attempts in one run (playback, transcript)
MaxClock == 2         \* ticks of one output context's clock
MaxCursor == 3        \* largest value of the playback cursor
MaxText == 3          \* fragments held by the accumulators and the log together
MaxAwaiting == 2      \* onmessage handlers suspended at the same time
MaxChunks == 3        \* outbound chunks the capture callback produces in one run
MaxOffset == 5        \* how far the samples tried lie from -1, -1/2, 0, 1/2 and 1, in 1/65536

Attempts == 1..MaxAttempts
Null == 0
Malformed == -1
NoAudio == 0

Resources == {"track", "processor", "source", "inputCtx", "outputCtx", "session"}

VARIABLES
  \* React state (lines 66-68)
  isListening, status, transcripts,
  \* refs (lines 71-84)
  sessionPromiseRef, mediaStreamRef, inputAudioContextRef, outputAudioContextRef,
  scriptProcessorRef, mediaStreamSourceRef,
  currentInputTranscription, currentOutputTranscription,
  nextStartTime, sources,
  playing,       \* the buffer source nodes started and neither ended nor stopped
  \* the objects of each attempt
  attempts,      \* number of attempts begun so far
  pc,            \* where startConversation of the attempt stands
  stream,        \* MediaStream: "none" | "live" | "stopped"
  inputCtx,      \* input AudioContext: "none" | "running" | "closed"
  outputCtx,     \* output AudioContext: "none" | "running" | "closed"
  processor,     \* ScriptProcessorNode: "none" | "connected" | "disconnected"
  streamSource,  \* MediaStreamAudioSourceNode: likewise
  promise,       \* the promise ai.live.connect returned: "none" | "pending" | "resolved" | "rejected"
  socket,        \* the transport: "none" | "connecting" | "open" | "closing" | "errored" | "closed" | "failed"
  closeQueued,   \* a .then(session => session.close()) waits on the pending promise
  currentTime,   \* currentTime of the context outputAudioContextRef points to
  \* history
  calls,         \* calls[a][r]: how often r of attempt a was stopped, disconnected or closed
  op,            \* the operation that ran last, and its input
  stopCalled,    \* stopCalled[a]: stop() ran while a was the attempt in progress
  schedule,      \* the buffer scheduled last, if any (a sequence of at most one)
  afterInterrupt,\* an interruption was handled and no start time was computed since
  turnFrags,     \* the fragments of the turn in progress or just completed, in arrival order
  turnDone,      \* the last fragment or TurnComplete handled was a TurnComplete
  heard,         \* the fragments handled since the last start(), and how many of them
                 \* up to the last TurnComplete
  ideal,         \* the cursor as it would be had no malformed chunk ever arrived
  \* outbound audio: chunks are numbered in the order onaudioprocess produced them
  produced,      \* how many chunks have been produced
  waiting,       \* waiting[a]: the chunks whose .then waits on the pending promise of a
  sent,          \* sent[a]: the chunks passed to sendRealtimeInput of session a, in order
  \* the codec: one sample on its way from the microphone to the output buffer
  codec,
  \* the event loop
  awaiting       \* the onmessage handlers suspended at the await of line 223, oldest first

state == <<isListening, status, transcripts>>
refs == <<sessionPromiseRef, mediaStreamRef, inputAudioContextRef, outputAudioContextRef,
          scriptProcessorRef, mediaStreamSourceRef>>
accs == <<currentInputTranscription, currentOutputTranscription>>
playback == <<nextStartTime, sources, playing>>
objects == <<pc, stream, inputCtx, outputCtx, processor, streamSource, promise, socket,
             closeQueued>>
history == <<calls, op, stopCalled, schedule, afterInterrupt, turnFrags, turnDone,
             heard, ideal>>
capture == <<produced, waiting, sent>>
vars == <<state, refs, accs, playback, attempts, objects, currentTime, history, capture,
          codec, awaiting>>

\* ---- inbound messages (LiveServerMessage, as far as onmessage reads it) ----
\* outT / inT: serverContent.outputTranscription.text / inputTranscription.text, a
\* string as the sequence of its characters (<<>>: the field is absent or empty);
\* audio: NoAudio, Malformed (odd byte length) or the decoded buffer's duration.
Msg(outT, inT, tc, audio, intr) ==
  [outT |-> outT, inT |-> inT, turnComplete |-> tc, audio |-> audio, interrupted |-> intr]

NoMsg == Msg(<<>>, <<>>, FALSE, NoAudio, FALSE)

\* What is kept of an operation: its name, its attempt, the signals of its message,
\* what became of the message's audio: "none" (no audio), "threw" (line 222 threw
\* before computing a start time), "dropped" (a start time was computed, then the
\* handler threw) or "scheduled", whether it is a stop() that follows a stop(),
\* what it stopped, disconnected and closed, in the order it did, and whether its
\* message carried a fragment.
Op(name, a, m, audio) ==
  [name |-> name, att |-> a, turnComplete |-> m.turnComplete,
   interrupted |-> m.interrupted, audio |-> audio, again |-> FALSE, log |-> <<>>,
   text |-> (m.outT # <<>> \/ m.inT # <<>>)]

\* ---- the status texts (lines 67, 127, 137, 166, 243, 247, 254) ----
IdleStatus == "Idle. Press Start to talk."
EndedStatus == "Conversation ended."
ConnectingStatus == "Connecting..."
ConnectedStatus == "Connected. You can start speaking now."
ErrorStatus == "Error: <message>. Please try again."
ClosedStatus == "Connection closed."
FailedStatus == "Failed to get microphone access."

\* Several setStatus calls in one task: the last one is what the user sees.
LastWrite(writes) == writes[Len(writes)]

Max(x, y) == IF x >= y THEN x ELSE y

\* ---- the codec (lines 17-61 and 176-185) ----

\* Line 180: the factor of the quantisation; line 57: the divisor of the decode.
Int16Scale == 32768

\* A sample is the number x / SampleScale, x an integer: samples lie on a grid twice
\* as fine as the 16-bit steps, so that x * 32768 is an integer or half of an odd one.
SampleScale == 2 * Int16Scale

\* The codec's state: the captured sample x, the 16-bit value the encoder stored, the
\* base64 text of the chunk, and the sample y the decoder put in the output buffer.
NoSample == [stage |-> "idle", x |-> 0, int16 |-> 0, data |-> <<>>, y |-> 0]

\* Storing a number in an Int16Array: the fraction is cut off towards zero and the
\* integer is taken modulo 2^16 into -32768..32767 (line 180, the store).  The
\* number is num / den.
ToInt16(num, den) ==
  LET cut == IF num >= 0 THEN num \div den ELSE -((-num) \div den)
      u == cut % (2 * Int16Scale)
  IN IF u >= Int16Scale THEN u - 2 * Int16Scale ELSE u

\* Line 180: int16[i] = inputData[i] * 32768.  The number stored is
\* (x / SampleScale) * 32768, that is x / (SampleScale / 32768).
Quantise(x) == ToInt16(x, SampleScale \div Int16Scale)

\* Line 183: new Uint8Array(int16.buffer), the two bytes of one sample, low byte
\* first.
BytesOf(v) == LET u == v % (2 * Int16Scale) IN <<u % 256, u \div 256>>

\* Lines 17-24: encode, for the two bytes of one sample: btoa gives three base64
\* digits (0..63) and one padding character (64).
encode(bytes) ==
  <<bytes[1] \div 4, (bytes[1] % 4) * 16 + bytes[2] \div 16, (bytes[2] % 16) * 4, 64>>

\* Lines 31-39: decode, for the base64 text of two bytes.
decode(base64) ==
  <<base64[1] * 4 + base64[2] \div 16, (base64[2] % 16) * 16 + base64[3] \div 4>>

\* A reading of the two bytes with the high byte first.
Int16At_highFirst(data) ==
  LET u == data[1] * 256 + data[2] IN IF u >= Int16Scale THEN u - 2 * Int16Scale ELSE u

\* Line 51: new Int16Array(data.buffer), the 16-bit value of two bytes.
Int16At(data) ==
  LET u == data[1] + data[2] * 256 IN IF u >= Int16Scale THEN u - 2 * Int16Scale ELSE u

\* Line 57: channelData[i] = dataInt16[i] / 32768.0, on the grid of the samples.
Dequantise(v) == v * (SampleScale \div Int16Scale)

\* What the codec leaves alone: the component.
component == <<state, refs, accs, playback, attempts, objects, currentTime, calls,
               stopCalled, schedule, afterInterrupt, turnFrags, turnDone, heard, ideal,
               capture, awaiting>>

\* The microphone delivers the sample x / SampleScale (line 176).
CaptureSample(x) ==
  /\ codec' = [NoSample EXCEPT !.stage = "captured", !.x = x]
  /\ op' = Op("captureSample", Null, NoMsg, "none")
  /\ UNCHANGED component

\* Lines 178-185: the sample is quantised and the chunk is encoded.
EncodeSample ==
  /\ codec.stage = "captured"
  /\ codec' = [codec EXCEPT !.stage = "encoded", !.int16 = Quantise(codec.x),
                            !.data = encode(BytesOf(Quantise(codec.x)))]
  /\ op' = Op("encodeSample", Null, NoMsg, "none")
  /\ UNCHANGED component

\* Lines 223 and 50-61: the chunk is decoded into the output buffer.
DecodeSample ==
  /\ codec.stage = "encoded"
  /\ codec' = [codec EXCEPT !.stage = "decoded",
                            !.y = Dequantise(Int16At(decode(codec.data)))]
  /\ op' = Op("decodeSample", Null, NoMsg, "none")
  /\ UNCHANGED component

Init ==
  /\ isListening = FALSE
  /\ status = IdleStatus
  /\ transcripts = <<>>
  /\ sessionPromiseRef = Null
  /\ mediaStreamRef = Null
  /\ inputAudioContextRef = Null
  /\ outputAudioContextRef = Null
  /\ scriptProcessorRef = Null
  /\ mediaStreamSourceRef = Null
  /\ currentInputTranscription = <<>>
  /\ currentOutputTranscription = <<>>
  /\ nextStartTime = 0
  /\ sources = {}
  /\ playing = {}
  /\ attempts = 0
  /\ pc = [a \in Attempts |-> "idle"]
  /\ stream = [a \in Attempts |-> "none"]
  /\ inputCtx = [a \in Attempts |-> "none"]
  /\ outputCtx = [a \in Attempts |-> "none"]
  /\ processor = [a \in Attempts |-> "none"]
  /\ streamSource = [a \in Attempts |-> "none"]
  /\ promise = [a \in Attempts |-> "none"]
  /\ socket = [a \in Attempts |-> "none"]
  /\ closeQueued = [a \in Attempts |-> FALSE]
  /\ currentTime = 0
  /\ calls = [a \in Attempts |-> [r \in Resources |-> 0]]
  /\ op = Op("init", Null, NoMsg, "none")
  /\ stopCalled = [a \in Attempts |-> FALSE]
  /\ schedule = <<>>
  /\ afterInterrupt = FALSE
  /\ turnFrags = <<>>
  /\ turnDone = FALSE
  /\ heard = [frags |-> <<>>, done |-> 0]
  /\ ideal = 0
  /\ produced = 0
  /\ waiting = [a \in Attempts |-> <<>>]
  /\ sent = [a \in Attempts |-> <<>>]
  /\ codec = NoSample
  /\ awaiting = <<>>


\* ---- stopConversation (lines 92-128) ----

\* A stopConversation that forgot line 101 would leave the stream in its ref.
MediaStreamRefAfterStop_kept == mediaStreamRef

\* The values stopConversation leaves in the refs it has released.
SessionPromiseRefAfterStop == Null
MediaStreamRefAfterStop == Null
ScriptProcessorRefAfterStop == Null
MediaStreamSourceRefAfterStop == Null

\* session.close() on a transport: an open one starts closing, any other is left alone.
CloseSocket(s) == IF s = "open" THEN "closing" ELSE s

ClosesInputCtx ==
  inputAudioContextRef # Null /\ inputCtx[inputAudioContextRef] # "closed"
ClosesOutputCtx ==
  outputAudioContextRef # Null /\ outputCtx[outputAudioContextRef] # "closed"

\* Whether stopConversation stops, disconnects or closes resource r of attempt a now.
\* The session is closed in a .then on its promise: now when the promise is resolved,
\* later (closeQueued) when it is pending, never when it is rejected.
StopHits(a, r) ==
  CASE r = "session"   -> sessionPromiseRef = a /\ promise[a] = "resolved"
    [] r = "track"     -> mediaStreamRef = a
    [] r = "processor" -> scriptProcessorRef = a
    [] r = "source"    -> mediaStreamSourceRef = a
    [] r = "inputCtx"  -> inputAudioContextRef = a /\ ClosesInputCtx
    [] r = "outputCtx" -> outputAudioContextRef = a /\ ClosesOutputCtx

\* A stopConversation whose session.close() ran where line 95 stands.
TeardownOrder_sessionFirst ==
  <<"session", "track", "processor", "source", "inputCtx", "sources", "outputCtx">>

\* The order in which a call of stopConversation acts: lines 99-125 as they stand
\* ("sources": the buffer source nodes, lines 119-122), then session.close(), which
\* line 95 leaves to a callback on the promise: the callback runs once the call has
\* returned.
TeardownOrder ==
  <<"track", "processor", "source", "inputCtx", "sources", "outputCtx", "session">>

\* What a call of stopConversation stops, disconnects and closes, in order.
Teardown ==
  SelectSeq(TeardownOrder,
            LAMBDA r : IF r = "sources" THEN ClosesOutputCtx /\ sources # {}
                       ELSE \E a \in Attempts : StopHits(a, r))

\* stopConversation, run on top of the transport states sock, in a task that has
\* already written the statuses writes.
StopConversation(sock, writes) ==
  /\ closeQueued' = IF sessionPromiseRef # Null /\ promise[sessionPromiseRef] = "pending"
                    THEN [closeQueued EXCEPT ![sessionPromiseRef] = TRUE]
                    ELSE closeQueued
  /\ socket' = IF sessionPromiseRef # Null /\ promise[sessionPromiseRef] = "resolved"
               THEN [sock EXCEPT ![sessionPromiseRef] = CloseSocket(@)]
               ELSE sock
  /\ sessionPromiseRef' = IF sessionPromiseRef # Null THEN SessionPromiseRefAfterStop
                          ELSE sessionPromiseRef
  /\ stream' = IF mediaStreamRef # Null THEN [stream EXCEPT ![mediaStreamRef] = "stopped"]
               ELSE stream
  /\ mediaStreamRef' = IF mediaStreamRef # Null THEN MediaStreamRefAfterStop
                       ELSE mediaStreamRef
  /\ processor' = IF scriptProcessorRef # Null
                  THEN [processor EXCEPT ![scriptProcessorRef] = "disconnected"]
                  ELSE processor
  /\ scriptProcessorRef' = IF scriptProcessorRef # Null THEN ScriptProcessorRefAfterStop
                           ELSE scriptProcessorRef
  /\ streamSource' = IF mediaStreamSourceRef # Null
                     THEN [streamSource EXCEPT ![mediaStreamSourceRef] = "disconnected"]
                     ELSE streamSource
  /\ mediaStreamSourceRef' = IF mediaStreamSourceRef # Null THEN MediaStreamSourceRefAfterStop
                             ELSE mediaStreamSourceRef
  /\ inputCtx' = IF ClosesInputCtx THEN [inputCtx EXCEPT ![inputAudioContextRef] = "closed"]
                 ELSE inputCtx
  /\ inputAudioContextRef' = IF ClosesInputCtx THEN Null ELSE inputAudioContextRef
  /\ outputCtx' = IF ClosesOutputCtx THEN [outputCtx EXCEPT ![outputAudioContextRef] = "closed"]
                  ELSE outputCtx
  /\ sources' = IF ClosesOutputCtx THEN {} ELSE sources
  /\ playing' = IF ClosesOutputCtx
                THEN {n \in playing \ sources : n.ctx # outputAudioContextRef}
                ELSE playing
  /\ outputAudioContextRef' = IF ClosesOutputCtx THEN Null ELSE outputAudioContextRef
  /\ isListening' = FALSE
  /\ status' = LastWrite(writes \o <<EndedStatus>>)
  /\ calls' = [a \in Attempts |-> [r \in Resources |->
                 calls[a][r] + (IF StopHits(a, r) THEN 1 ELSE 0)]]

\* stop(): the Stop button, or the cleanup of the unmount effect (lines 260-264, 271).
Stop ==
  /\ StopConversation(socket, <<>>)
  /\ stopCalled' = IF isListening THEN [stopCalled EXCEPT ![attempts] = TRUE] ELSE stopCalled
  /\ op' = [Op("stop", Null, NoMsg, "none") EXCEPT !.again = (op.name = "stop"),
                                                  !.log = Teardown]
  /\ UNCHANGED <<transcripts, accs, nextStartTime, attempts, pc, promise, currentTime,
                 schedule, afterInterrupt, turnFrags, turnDone, heard, capture, awaiting,
                 codec, ideal>>

\* The calls of stopConversation that may raise, and the place of each statement of
\* its body in the text (the session's close, line 95, is only registered there).
FailSteps == {"track", "processor", "source", "inputCtx", "outputCtx"}
StepIndex(r) ==
  CASE r = "session"   -> 0
    [] r = "track"     -> 1
    [] r = "processor" -> 2
    [] r = "source"    -> 3
    [] r = "inputCtx"  -> 4
    [] r = "sources"   -> 5
    [] r = "outputCtx" -> 6

\* Whether statement x of the body runs to its end when the call of step r raises:
\* nothing catches (lines 92-128 have no try), so only what stands before it does.
RunsDespite(x, r) == StepIndex(x) < StepIndex(r)

\* stop() in which the call of step r raises (track.stop() of line 100, a
\* disconnect() of lines 105 and 109, a close() of lines 114 and 123: a
\* webkitAudioContext, which line 148 allows for, may have no close).  The exception
\* leaves stopConversation: the object of step r is as it was, its ref is not
\* cleared, and nothing that follows runs, lines 126-127 included.  The callback of
\* line 95 is registered already and closes the session.
StopFails(r) ==
  /\ r \in FailSteps
  /\ \E a \in Attempts : StopHits(a, r)
  /\ closeQueued' = IF sessionPromiseRef # Null /\ promise[sessionPromiseRef] = "pending"
                    THEN [closeQueued EXCEPT ![sessionPromiseRef] = TRUE]
                    ELSE closeQueued
  /\ socket' = IF sessionPromiseRef # Null /\ promise[sessionPromiseRef] = "resolved"
               THEN [socket EXCEPT ![sessionPromiseRef] = CloseSocket(@)]
               ELSE socket
  /\ sessionPromiseRef' = IF sessionPromiseRef # Null THEN SessionPromiseRefAfterStop
                          ELSE sessionPromiseRef
  /\ stream' = IF mediaStreamRef # Null /\ RunsDespite("track", r)
               THEN [stream EXCEPT ![mediaStreamRef] = "stopped"]
               ELSE stream
  /\ mediaStreamRef' = IF mediaStreamRef # Null /\ RunsDespite("track", r)
                       THEN MediaStreamRefAfterStop
                       ELSE mediaStreamRef
  /\ processor' = IF scriptProcessorRef # Null /\ RunsDespite("processor", r)
                  THEN [processor EXCEPT ![scriptProcessorRef] = "disconnected"]
                  ELSE processor
  /\ scriptProcessorRef' = IF scriptProcessorRef # Null /\ RunsDespite("processor", r)
                           THEN ScriptProcessorRefAfterStop
                           ELSE scriptProcessorRef
  /\ streamSource' = IF mediaStreamSourceRef # Null /\ RunsDespite("source", r)
                     THEN [streamSource EXCEPT ![mediaStreamSourceRef] = "disconnected"]
                     ELSE streamSource
  /\ mediaStreamSourceRef' = IF mediaStreamSourceRef # Null /\ RunsDespite("source", r)
                             THEN MediaStreamSourceRefAfterStop
                             ELSE mediaStreamSourceRef
  /\ inputCtx' = IF ClosesInputCtx /\ RunsDespite("inputCtx", r)
                 THEN [inputCtx EXCEPT ![inputAudioContextRef] = "closed"]
                 ELSE inputCtx
  /\ inputAudioContextRef' = IF ClosesInputCtx /\ RunsDespite("inputCtx", r) THEN Null
                             ELSE inputAudioContextRef
  /\ sources' = IF ClosesOutputCtx /\ RunsDespite("sources", r) THEN {} ELSE sources
  /\ playing' = IF ClosesOutputCtx /\ RunsDespite("sources", r)
                THEN {n \in playing \ sources : n.ctx # outputAudioContextRef}
                ELSE playing
  /\ outputCtx' = IF ClosesOutputCtx /\ RunsDespite("outputCtx", r)
                  THEN [outputCtx EXCEPT ![outputAudioContextRef] = "closed"]
                  ELSE outputCtx
  /\ outputAudioContextRef' = IF ClosesOutputCtx /\ RunsDespite("outputCtx", r) THEN Null
                              ELSE outputAudioContextRef
  /\ calls' = [a \in Attempts |-> [x \in Resources |->
                 calls[a][x] + (IF StopHits(a, x) /\ RunsDespite(x, r) THEN 1 ELSE 0)]]
  /\ stopCalled' = IF isListening THEN [stopCalled EXCEPT ![attempts] = TRUE] ELSE stopCalled
  /\ op' = [Op("stopFails", Null, NoMsg, "none")
              EXCEPT !.log = SelectSeq(Teardown, LAMBDA x : RunsDespite(x, r))]
  /\ UNCHANGED <<state, accs, nextStartTime, attempts, pc, promise, currentTime,
                 schedule, afterInterrupt, turnFrags, turnDone, heard, capture, awaiting,
                 codec, ideal>>

\* ---- startConversation (lines 134-257) ----

\* A startConversation without the guard of line 135.
StartReturnsEarly_never == FALSE

\* Line 135: the call returns at once when the component is listening.
StartReturnsEarly == isListening

\* start(): up to the await of getUserMedia (lines 134-142).
Start ==
  /\ op' = Op("start", IF StartReturnsEarly THEN Null ELSE attempts + 1, NoMsg, "none")
  /\ IF StartReturnsEarly
     THEN UNCHANGED <<state, refs, accs, playback, attempts, objects, currentTime,
                      calls, stopCalled, capture, awaiting, codec, ideal, schedule,
                      afterInterrupt, turnFrags, turnDone, heard>>
     ELSE /\ attempts < MaxAttempts
          /\ attempts' = attempts + 1
          /\ isListening' = TRUE
          /\ status' = ConnectingStatus
          /\ transcripts' = <<>>
          /\ heard' = [frags |-> <<>>, done |-> 0]
          /\ pc' = [pc EXCEPT ![attempts + 1] = "awaitMic"]
          /\ UNCHANGED <<refs, accs, playback, stream, inputCtx, outputCtx, processor,
                         streamSource, promise, socket, closeQueued, currentTime,
                         calls, stopCalled, capture, awaiting, codec, ideal, schedule,
                         afterInterrupt, turnFrags, turnDone>>

\* getUserMedia resolves; lines 143-154 run and the function returns with the
\* connection under way (ai.live.connect is not awaited).
GetUserMediaResolves(a) ==
  /\ pc[a] = "awaitMic"
  /\ pc' = [pc EXCEPT ![a] = "done"]
  /\ stream' = [stream EXCEPT ![a] = "live"]
  /\ mediaStreamRef' = a
  /\ inputCtx' = [inputCtx EXCEPT ![a] = "running"]
  /\ outputCtx' = [outputCtx EXCEPT ![a] = "running"]
  /\ inputAudioContextRef' = a
  /\ outputAudioContextRef' = a
  /\ currentTime' = 0
  /\ promise' = [promise EXCEPT ![a] = "pending"]
  /\ socket' = [socket EXCEPT ![a] = "connecting"]
  /\ sessionPromiseRef' = a
  /\ op' = Op("getUserMediaResolves", a, NoMsg, "none")
  /\ UNCHANGED <<state, scriptProcessorRef, mediaStreamSourceRef, accs, playback,
                 attempts, processor, streamSource, closeQueued, calls, stopCalled,
                 capture, awaiting, codec, ideal, schedule, afterInterrupt, turnFrags,
                 turnDone, heard>>

\* The catch block (lines 252-256).
CatchBlock ==
  /\ status' = FailedStatus
  /\ isListening' = FALSE

\* getUserMedia rejects: the catch block runs.
GetUserMediaRejects(a) ==
  /\ pc[a] = "awaitMic"
  /\ pc' = [pc EXCEPT ![a] = "done"]
  /\ CatchBlock
  /\ op' = Op("getUserMediaRejects", a, NoMsg, "none")
  /\ UNCHANGED <<transcripts, refs, accs, playback, attempts, stream, inputCtx,
                 outputCtx, processor, streamSource, promise, socket, closeQueued,
                 currentTime, calls, stopCalled, capture, awaiting, codec, ideal,
                 schedule, afterInterrupt, turnFrags, turnDone, heard>>

\* getUserMedia resolves and the GoogleGenAI constructor of line 145 throws (no API
\* key): the stream is stored, then the catch block runs.
ClientSetupThrows(a) ==
  /\ pc[a] = "awaitMic"
  /\ pc' = [pc EXCEPT ![a] = "done"]
  /\ stream' = [stream EXCEPT ![a] = "live"]
  /\ mediaStreamRef' = a
  /\ CatchBlock
  /\ op' = Op("clientSetupThrows", a, NoMsg, "none")
  /\ UNCHANGED <<transcripts, sessionPromiseRef, inputAudioContextRef,
                 outputAudioContextRef, scriptProcessorRef, mediaStreamSourceRef, accs,
                 playback, attempts, inputCtx, outputCtx, processor, streamSource,
                 promise, socket, closeQueued, currentTime, calls, stopCalled, capture,
                 awaiting, codec, ideal, schedule, afterInterrupt, turnFrags,
                 turnDone, heard>>

\* The promise of ai.live.connect rejects (the handshake fails).  Nothing awaits or
\* catches it: no code of the component runs, the callbacks of line 188 included.
ConnectRejects(a) ==
  /\ promise[a] = "pending"
  /\ socket[a] = "connecting"
  /\ promise' = [promise EXCEPT ![a] = "rejected"]
  /\ socket' = [socket EXCEPT ![a] = "failed"]
  /\ waiting' = [waiting EXCEPT ![a] = <<>>]
  /\ op' = Op("connectRejects", a, NoMsg, "none")
  /\ UNCHANGED <<state, refs, accs, playback, attempts, pc, stream, inputCtx,
                 outputCtx, processor, streamSource, closeQueued, currentTime, calls,
                 stopCalled, produced, sent, awaiting, codec, ideal, schedule,
                 afterInterrupt, turnFrags, turnDone, heard>>

\* ---- the callbacks (lines 163-250) ----

\* onopen (lines 165-195).  inputAudioContextRef.current! is null after a stop():
\* line 167 throws and the capture nodes are not created.
OnOpen(a) ==
  /\ socket[a] = "connecting"
  /\ socket' = [socket EXCEPT ![a] = "open"]
  /\ status' = ConnectedStatus
  /\ IF inputAudioContextRef = Null
     THEN UNCHANGED <<mediaStreamSourceRef, scriptProcessorRef, streamSource, processor>>
     ELSE /\ mediaStreamSourceRef' = a
          /\ scriptProcessorRef' = a
          /\ streamSource' = [streamSource EXCEPT ![a] = "connected"]
          /\ processor' = [processor EXCEPT ![a] = "connected"]
  /\ op' = Op("onopen", a, NoMsg, "none")
  /\ UNCHANGED <<isListening, transcripts, sessionPromiseRef, mediaStreamRef,
                 inputAudioContextRef, outputAudioContextRef, accs, playback, attempts,
                 pc, stream, inputCtx, outputCtx, promise, closeQueued, currentTime,
                 calls, stopCalled, capture, awaiting, codec, ideal, schedule,
                 afterInterrupt, turnFrags, turnDone, heard>>

\* A callback registered ahead of the ones that wait already.
Register_front(queue, chunk) == <<chunk>> \o queue

\* Line 188 on a pending promise: the callback joins the ones that wait, behind them.
Register(queue, chunk) == Append(queue, chunk)

\* Lines 188-190 once the promise is resolved: the callbacks run in the order they
\* were registered, each passing its chunk to sendRealtimeInput.
RunThens(wire, queue) == wire \o queue

\* onaudioprocess of the processor of attempt a (lines 175-192): a chunk is produced
\* and handed to the promise in sessionPromiseRef, if there is one.  A rejected
\* promise never runs the callback.
OnAudioProcess(a) ==
  /\ processor[a] = "connected"
  /\ produced < MaxChunks
  /\ produced' = produced + 1
  /\ LET p == sessionPromiseRef
         chunk == produced + 1
     IN /\ waiting' = IF p # Null /\ promise[p] = "pending"
                      THEN [waiting EXCEPT ![p] = Register(@, chunk)]
                      ELSE waiting
        /\ sent' = IF p # Null /\ promise[p] = "resolved"
                   THEN [sent EXCEPT ![p] = RunThens(@, <<chunk>>)]
                   ELSE sent
  /\ op' = Op("onaudioprocess", a, NoMsg, "none")
  /\ UNCHANGED <<state, refs, accs, playback, attempts, objects, currentTime, calls,
                 stopCalled, awaiting, codec, ideal, schedule, afterInterrupt,
                 turnFrags, turnDone, heard>>

\* The promise of ai.live.connect resolves with the session, once the transport is
\* open: the callbacks of line 188 that wait on it run, then a close a stop() queued
\* on the pending promise (line 95).
ConnectResolves(a) ==
  /\ promise[a] = "pending"
  /\ socket[a] = "open"
  /\ promise' = [promise EXCEPT ![a] = "resolved"]
  /\ closeQueued' = [closeQueued EXCEPT ![a] = FALSE]
  /\ socket' = IF closeQueued[a] THEN [socket EXCEPT ![a] = CloseSocket(@)] ELSE socket
  /\ calls' = IF closeQueued[a] THEN [calls EXCEPT ![a]["session"] = @ + 1] ELSE calls
  /\ sent' = [sent EXCEPT ![a] = RunThens(@, waiting[a])]
  /\ waiting' = [waiting EXCEPT ![a] = <<>>]
  /\ op' = [Op("connectResolves", a, NoMsg, "none")
              EXCEPT !.log = IF closeQueued[a] THEN <<"session">> ELSE <<>>]
  /\ UNCHANGED <<state, refs, accs, playback, attempts, pc, stream, inputCtx,
                 outputCtx, processor, streamSource, currentTime, stopCalled, produced,
                 awaiting, codec, ideal, schedule, afterInterrupt, turnFrags,
                 turnDone, heard>>

\* onerror (lines 241-245): the status is set to the error text, then
\* stopConversation runs in the same task and sets it again (line 127).
OnError(a) ==
  /\ socket[a] \in {"connecting", "open", "closing"}
  /\ StopConversation([socket EXCEPT ![a] = "errored"], <<ErrorStatus>>)
  /\ op' = [Op("onerror", a, NoMsg, "none") EXCEPT !.log = Teardown]
  /\ UNCHANGED <<transcripts, accs, nextStartTime, attempts, pc, promise, currentTime,
                 stopCalled, capture, awaiting, codec, ideal, schedule, afterInterrupt,
                 turnFrags, turnDone, heard>>

\* onclose (lines 246-249).
OnClose(a) ==
  /\ socket[a] \in {"open", "closing", "errored"}
  /\ socket' = [socket EXCEPT ![a] = "closed"]
  /\ status' = ClosedStatus
  /\ isListening' = FALSE
  /\ op' = Op("onclose", a, NoMsg, "none")
  /\ UNCHANGED <<transcripts, refs, accs, playback, attempts, pc, stream, inputCtx,
                 outputCtx, processor, streamSource, promise, closeQueued, currentTime,
                 calls, stopCalled, capture, awaiting, codec, ideal, schedule,
                 afterInterrupt, turnFrags, turnDone, heard>>


\* ---- onmessage (lines 196-240) ----

Entry(speaker, text) == [speaker |-> speaker, text |-> text]

\* Lines 199 and 202 as assignments made for every message: the accumulator is the
\* message's fragment, empty when it has none.
Accumulate_assign(acc, text) == text

\* Lines 199 and 202: a fragment is appended to its speaker's accumulator.
Accumulate(acc, text) == acc \o text

\* Lines 210 and 211 in the other order.
NewTranscripts_modelFirst(fullInput, fullOutput) ==
  (IF fullOutput # <<>> THEN <<[speaker |-> "model", text |-> fullOutput]>> ELSE <<>>)
    \o (IF fullInput # <<>> THEN <<[speaker |-> "user", text |-> fullInput]>> ELSE <<>>)

\* Lines 209-212: the entries one TurnComplete appends.
NewTranscripts(fullInput, fullOutput) ==
  (IF fullInput # <<>> THEN <<Entry("user", fullInput)>> ELSE <<>>)
    \o (IF fullOutput # <<>> THEN <<Entry("model", fullOutput)>> ELSE <<>>)

\* A log that would hold the entries of the last turn only.
LogAfterTurn_replace(log, entries) == entries

\* Line 213: the log once the entries of a turn are in it.
LogAfterTurn(log, entries) == log \o entries

\* Line 222 without the cursor: every buffer starts at the clock.
StartTimeFor_now(cursor, now) == now

\* Line 222 without the clock: every buffer starts at the cursor.
StartTimeFor_cursor(cursor, now) == cursor

\* Line 222: the start time of the buffer being enqueued.
StartTimeFor(cursor, now) == Max(cursor, now)

\* Line 229 without the duration: the cursor stays at the buffer's start.
CursorAfter_noAdvance(start, duration) == start

\* Line 229: the cursor once the buffer is started.
CursorAfter(start, duration) == start + duration

\* Without line 238 the cursor of before the handler would remain.
CursorAfterInterrupt_stale == nextStartTime

\* Line 238 with the clock's reading in place of 0.
CursorAfterInterrupt_clock == currentTime

\* Line 238: the cursor an interruption leaves.
CursorAfterInterrupt == 0

\* Lines 219-231 for message m of attempt a: the cursor and the node set the audio
\* part leaves, what became of the audio, and whether the handler threw (the rest
\* of the handler, the interruption included, is then skipped).
\*   - no output context (after a stop): line 222 throws before anything is written;
\*   - a malformed chunk: line 223 throws after line 222 has written the cursor;
\*   - the context now in the ref belongs to another attempt than the outputNode this
\*     callback closed over: connect (line 226) throws, likewise.
AudioPart(a, m) ==
  IF m.audio = NoAudio
  THEN [threw |-> FALSE, outcome |-> "none", cursor |-> nextStartTime, nodes |-> sources,
        started |-> {}]
  ELSE IF outputAudioContextRef = Null
  THEN [threw |-> TRUE, outcome |-> "threw", cursor |-> nextStartTime, nodes |-> sources,
        started |-> {}]
  ELSE IF m.audio = Malformed \/ outputAudioContextRef # a
  THEN [threw |-> TRUE, outcome |-> "dropped",
        cursor |-> StartTimeFor(nextStartTime, currentTime), nodes |-> sources,
        started |-> {}]
  ELSE LET node == [start |-> StartTimeFor(nextStartTime, currentTime),
                    dur |-> m.audio, ctx |-> a]
       IN [threw |-> FALSE, outcome |-> "scheduled",
           cursor |-> CursorAfter(StartTimeFor(nextStartTime, currentTime), m.audio),
           nodes |-> sources \cup {node}, started |-> {node}]

\* The cursor the handler of message m would leave, had it begun with the cursor
\* ideal and had the chunk of m, when malformed, not been in m: lines 219-239 with
\* no audio in place of a malformed chunk.
IdealCursor(a, m) ==
  LET audio == IF m.audio = Malformed THEN NoAudio ELSE m.audio
      threw == audio # NoAudio /\ outputAudioContextRef # a
      cursor == IF audio = NoAudio \/ outputAudioContextRef = Null THEN ideal
                ELSE IF outputAudioContextRef # a THEN StartTimeFor(ideal, currentTime)
                ELSE CursorAfter(StartTimeFor(ideal, currentTime), audio)
  IN IF m.interrupted /\ ~threw THEN CursorAfterInterrupt ELSE cursor

\* Lines 233-239: whether the interruption of message m is handled.
Interrupts(a, m) == m.interrupted /\ ~AudioPart(a, m).threw

\* An interruption that stopped only the nodes of before its own message.
StoppedByInterrupt_earlier(nodes) == sources

\* Lines 234-236: the nodes an interruption stops, nodes being the set as the audio
\* part of the handler has left it.
StoppedByInterrupt(nodes) == nodes

\* What is kept of a scheduled buffer: its start time and duration, the clock when
\* it was enqueued, its context, whether an interruption was handled and no start
\* time computed since, its place (1, or 2 for any later one) among the buffers
\* scheduled in its context since the last interruption, for place 2 the end of the
\* buffer before it, whether an interruption has cut the queue after it, the
\* start it would have had, had no malformed chunk ever arrived, whether a chunk the
\* service sent between the buffer before it and this one never arrived, and whether
\* one has been lost since this one.
Scheduled(a, m) ==
  LET second == schedule # <<>> /\ ~schedule[1].cut /\ schedule[1].ctx = a
  IN [start |-> StartTimeFor(nextStartTime, currentTime), dur |-> m.audio,
      now |-> currentTime, ctx |-> a, afterInterrupt |-> afterInterrupt,
      place |-> IF second THEN 2 ELSE 1,
      prevEnd |-> IF second THEN schedule[1].start + schedule[1].dur ELSE 0,
      cut |-> FALSE,
      idealStart |-> StartTimeFor(ideal, currentTime),
      afterLoss |-> second /\ schedule[1].lostAfter,
      lostAfter |-> FALSE]

\* The history of the queue once an interruption has been handled.
Cut(sched) == IF sched = <<>> THEN <<>> ELSE <<[sched[1] EXCEPT !.cut = TRUE]>>

\* How many fragments the log and the two accumulators hold together.
RECURSIVE TextIn(_)
TextIn(log) == IF log = <<>> THEN 0 ELSE Len(Head(log).text) + TextIn(Tail(log))
TextHeld(log, accIn, accOut) == TextIn(log) + Len(accIn) + Len(accOut)

Frags(m) ==
  (IF m.outT # <<>> THEN <<Entry("model", m.outT)>> ELSE <<>>)
    \o (IF m.inT # <<>> THEN <<Entry("user", m.inT)>> ELSE <<>>)

\* Lines 198-217: the transcription part of the handler.
TranscriptPart(m) ==
  LET fullOutput == Accumulate(currentOutputTranscription, m.outT)
      fullInput == Accumulate(currentInputTranscription, m.inT)
  IN /\ IF m.turnComplete
        THEN /\ transcripts' = LogAfterTurn(transcripts, NewTranscripts(fullInput, fullOutput))
             /\ currentInputTranscription' = <<>>
             /\ currentOutputTranscription' = <<>>
             /\ turnFrags' = (IF turnDone THEN <<>> ELSE turnFrags) \o Frags(m)
             /\ turnDone' = TRUE
             /\ heard' = [frags |-> heard.frags \o Frags(m),
                          done |-> Len(heard.frags \o Frags(m))]
        ELSE /\ transcripts' = transcripts
             /\ currentInputTranscription' = fullInput
             /\ currentOutputTranscription' = fullOutput
             /\ turnFrags' = IF Frags(m) = <<>> THEN turnFrags
                              ELSE (IF turnDone THEN <<>> ELSE turnFrags) \o Frags(m)
             /\ turnDone' = (turnDone /\ Frags(m) = <<>>)
             /\ heard' = [heard EXCEPT !.frags = @ \o Frags(m)]
     /\ TextHeld(transcripts', currentInputTranscription', currentOutputTranscription')
          <= MaxText

\* The whole handler, as one task: the await of line 223 is on a promise that is
\* settled when it is awaited, so the rest of the handler runs before any other task.
OnMessage(a, m) ==
  /\ socket[a] \in {"open", "closing"}
  /\ promise[a] = "resolved"
  /\ TranscriptPart(m)
  /\ LET audio == AudioPart(a, m)
     IN /\ nextStartTime' = IF Interrupts(a, m) THEN CursorAfterInterrupt ELSE audio.cursor
        /\ sources' = IF Interrupts(a, m) THEN {} ELSE audio.nodes
        /\ playing' = IF Interrupts(a, m)
                      THEN (playing \cup audio.started) \ StoppedByInterrupt(audio.nodes)
                      ELSE playing \cup audio.started
        /\ schedule' = LET sched == IF audio.outcome = "scheduled" THEN <<Scheduled(a, m)>>
                                     ELSE schedule
                       IN IF Interrupts(a, m) THEN Cut(sched) ELSE sched
        /\ afterInterrupt' = IF Interrupts(a, m) THEN TRUE
                             ELSE IF audio.outcome \in {"dropped", "scheduled"} THEN FALSE
                             ELSE afterInterrupt
  /\ ideal' = IdealCursor(a, m)
  /\ nextStartTime' <= MaxCursor
  /\ op' = Op("onmessage", a, m, AudioPart(a, m).outcome)
  /\ UNCHANGED <<isListening, status, refs, attempts, objects, currentTime, calls,
                 stopCalled, capture, awaiting, codec>>

\* A message with an audio chunk that the service sent after the last scheduled
\* buffer never arrives: the handler is not called, and nothing in the messages it
\* reads (lines 198-233: no sequence number) tells the later ones apart.
ChunkLost ==
  /\ schedule # <<>>
  /\ ~schedule[1].cut /\ ~schedule[1].lostAfter
  /\ socket[schedule[1].ctx] = "open"
  /\ promise[schedule[1].ctx] = "resolved"
  /\ schedule' = <<[schedule[1] EXCEPT !.lostAfter = TRUE]>>
  /\ op' = Op("chunkLost", schedule[1].ctx, NoMsg, "none")
  /\ UNCHANGED <<state, refs, accs, playback, attempts, objects, currentTime, calls,
                 stopCalled, afterInterrupt, turnFrags, turnDone, heard, ideal,
                 capture, codec, awaiting>>

\* ---- the output clock and the 'ended' event ----

\* The clock of the output context in use advances.
Tick ==
  /\ outputAudioContextRef # Null
  /\ currentTime < MaxClock
  /\ currentTime' = currentTime + 1
  /\ op' = Op("tick", Null, NoMsg, "none")
  /\ UNCHANGED <<state, refs, accs, playback, attempts, objects, calls, stopCalled,
                 capture, awaiting, codec, ideal, schedule, afterInterrupt, turnFrags,
                 turnDone, heard>>

\* Line 227: a node that has played to its end leaves the set.  The clock of a
\* context that is no longer in the ref is not followed: its nodes end at any time.
Ended(n) ==
  /\ n \in sources
  /\ n.ctx # outputAudioContextRef \/ currentTime >= n.start + n.dur
  /\ sources' = sources \ {n}
  /\ playing' = playing \ {n}
  /\ op' = Op("ended", n.ctx, NoMsg, "none")
  /\ UNCHANGED <<state, refs, accs, nextStartTime, attempts, objects, currentTime,
                 calls, stopCalled, capture, awaiting, codec, ideal, schedule,
                 afterInterrupt, turnFrags, turnDone, heard>>

\* ---- the handler of an audio message, step by step ----

\* A decodeAudioData whose promise settled in a later task, as the context's own
\* decodeAudioData does.
DecodeSettlesAtOnce_later == FALSE

\* Lines 50-61: the body of decodeAudioData holds no await, so the promise it
\* returns is settled (fulfilled, or rejected by a throw of lines 51-53) when the
\* handler awaits it.
DecodeSettlesAtOnce == TRUE

\* Line 223: a handler that awaits a settled promise resumes in a microtask, and
\* the event loop begins no task while a microtask waits.
TaskMayRun == awaiting = <<>> \/ ~DecodeSettlesAtOnce

\* Lines 196-223: the handler of an audio message up to its await.  With no output
\* context line 222 throws and the handler is over; otherwise the cursor is written
\* and the handler is suspended, whether the decode succeeded or threw.
OnMessageBegins(a, m) ==
  /\ m.audio # NoAudio
  /\ socket[a] \in {"open", "closing"}
  /\ promise[a] = "resolved"
  /\ Len(awaiting) < MaxAwaiting
  /\ TranscriptPart(m)
  /\ IF outputAudioContextRef = Null
     THEN /\ UNCHANGED <<nextStartTime, awaiting>>
          /\ ideal' = IdealCursor(a, m)
          /\ op' = Op("onmessage", a, m, "threw")
     ELSE /\ nextStartTime' = StartTimeFor(nextStartTime, currentTime)
          /\ awaiting' = Append(awaiting, [att |-> a, m |-> m])
          /\ ideal' = ideal
          /\ op' = Op("onmessageBegins", a, m, "none")
  /\ nextStartTime' + Max(m.audio, 0) <= MaxCursor
  /\ UNCHANGED <<isListening, status, refs, sources, playing, attempts, objects,
                 currentTime, calls, stopCalled, capture, codec, schedule,
                 afterInterrupt>>

\* Lines 223-239: the oldest suspended handler resumes.  The await throws when the
\* decode threw; lines 224-226 throw when the output context is gone or is not the
\* one of the handler's outputNode; otherwise the buffer starts at the cursor.
OnMessageResumes ==
  /\ awaiting # <<>>
  /\ awaiting' = Tail(awaiting)
  /\ LET a == Head(awaiting).att
         m == Head(awaiting).m
         threw == m.audio = Malformed \/ outputAudioContextRef # a
         started == IF threw THEN {}
                    ELSE {[start |-> nextStartTime, dur |-> m.audio, ctx |-> a]}
         interrupts == m.interrupted /\ ~threw
         sched == IF threw THEN schedule
                  ELSE <<[Scheduled(a, m) EXCEPT !.start = nextStartTime]>>
     IN /\ nextStartTime' = IF interrupts THEN CursorAfterInterrupt
                            ELSE IF threw THEN nextStartTime
                            ELSE CursorAfter(nextStartTime, m.audio)
        /\ sources' = IF interrupts THEN {} ELSE sources \cup started
        /\ playing' = IF interrupts
                      THEN (playing \cup started) \ StoppedByInterrupt(sources \cup started)
                      ELSE playing \cup started
        /\ schedule' = IF interrupts THEN Cut(sched) ELSE sched
        /\ afterInterrupt' = interrupts
        /\ ideal' = IdealCursor(a, m)
        /\ op' = Op("onmessageResumes", a, m, IF threw THEN "dropped" ELSE "scheduled")
  /\ UNCHANGED <<state, refs, accs, attempts, objects, currentTime, calls, stopCalled,
                 capture, codec, turnFrags, turnDone, heard>>

\* ---- inputs ----
UserTexts == {<<>>, <<"a">>, <<"b">>}
ModelTexts == {<<>>, <<"c">>}
\* Durations of the decoded buffers, in clock ticks.
Durations == {1, 2}

\* A message with nothing the handler reads (the service's setupComplete).
LifeMsgs == {NoMsg}

\* Audio and interruptions only.
PlaybackMsgs ==
  {Msg(<<>>, <<>>, FALSE, au, i) : au \in Durations \cup {Malformed, NoAudio}, i \in BOOLEAN}
    \ {NoMsg}

\* Well-formed audio chunks only.
LossMsgs == {Msg(<<>>, <<>>, FALSE, au, FALSE) : au \in Durations}

\* A fragment of the user, a TurnComplete, a chunk.
SessionMsgs ==
  {Msg(<<>>, <<"a">>, FALSE, NoAudio, FALSE), Msg(<<>>, <<>>, TRUE, NoAudio, FALSE),
   Msg(<<>>, <<>>, FALSE, 1, FALSE)}

\* Messages of one kind each: a fragment of the user, a TurnComplete, a chunk, an
\* interruption.
KindMsgs ==
  SessionMsgs \cup {Msg(<<>>, <<>>, FALSE, NoAudio, TRUE)}

\* Fragments and TurnComplete only.
TranscriptMsgs ==
  {Msg(o, i, tc, NoAudio, FALSE) : o \in ModelTexts, i \in UserTexts, tc \in BOOLEAN}
    \ {NoMsg}

\* The samples tried: around -1, -1/2, 0, 1/2 and 1, and not outside [-1, 1].
Samples ==
  {x \in -SampleScale..SampleScale :
     \E c \in {-SampleScale, -Int16Scale, 0, Int16Scale, SampleScale} :
        x - c \in -MaxOffset..MaxOffset}

\* ---- specifications ----

\* The life cycle of the controller: every way an attempt begins, fails and ends,
\* for up to MaxAttempts attempts; the messages carry nothing.
Next ==
  \/ Start
  \/ Stop
  \/ \E a \in Attempts : GetUserMediaResolves(a)
  \/ \E a \in Attempts : GetUserMediaRejects(a)
  \/ \E a \in Attempts : ClientSetupThrows(a)
  \/ \E a \in Attempts : ConnectRejects(a)
  \/ \E a \in Attempts : OnOpen(a)
  \/ \E a \in Attempts : ConnectResolves(a)
  \/ \E a \in Attempts : OnError(a)
  \/ \E a \in Attempts : OnClose(a)
  \/ \E a \in Attempts, m \in LifeMsgs : OnMessage(a, m)

Spec == Init /\ [][Next]_vars

\* Every earlier attempt has run its course: its transport is closed, if it had one.
PreviousEnded ==
  \A a \in 1..attempts : pc[a] = "done" /\ socket[a] \in {"none", "closed", "failed"}

\* Playback: up to MaxSessions attempts, one after the other, whose microphone is
\* granted and whose handshake succeeds; audio and interruption messages, the clock
\* and 'ended'.
NextPlayback ==
  \/ Start /\ PreviousEnded /\ attempts' <= MaxSessions
  \/ Stop
  \/ \E a \in Attempts : GetUserMediaResolves(a)
  \/ \E a \in Attempts : OnOpen(a)
  \/ \E a \in Attempts : ConnectResolves(a)
  \/ \E a \in Attempts : OnError(a)
  \/ \E a \in Attempts : OnClose(a)
  \/ \E a \in Attempts, m \in PlaybackMsgs : OnMessage(a, m)
  \/ Tick
  \/ \E n \in sources : Ended(n)

SpecPlayback == Init /\ [][NextPlayback]_vars

\* An audio stream with holes: the same attempts, well-formed chunks of which any
\* may fail to arrive, the clock and 'ended'.
NextLoss ==
  \/ Start /\ PreviousEnded /\ attempts' <= MaxSessions
  \/ Stop
  \/ \E a \in Attempts : GetUserMediaResolves(a)
  \/ \E a \in Attempts : OnOpen(a)
  \/ \E a \in Attempts : ConnectResolves(a)
  \/ \E a \in Attempts : OnError(a)
  \/ \E a \in Attempts : OnClose(a)
  \/ \E a \in Attempts, m \in LossMsgs : OnMessage(a, m)
  \/ ChunkLost
  \/ Tick
  \/ \E n \in sources : Ended(n)

SpecLoss == Init /\ [][NextLoss]_vars

\* Transcript: the same attempts, fragment and TurnComplete messages.
NextTranscript ==
  \/ Start /\ PreviousEnded /\ attempts' <= MaxSessions
  \/ Stop
  \/ \E a \in Attempts : GetUserMediaResolves(a)
  \/ \E a \in Attempts : OnOpen(a)
  \/ \E a \in Attempts : ConnectResolves(a)
  \/ \E a \in Attempts : OnError(a)
  \/ \E a \in Attempts : OnClose(a)
  \/ \E a \in Attempts, m \in TranscriptMsgs : OnMessage(a, m)

SpecTranscript == Init /\ [][NextTranscript]_vars

\* Delivery: the same attempts and the messages of the playback, the handler of an
\* audio message taken in its two steps, under the event loop's rule.
NextDelivery ==
  \/ TaskMayRun /\ Start /\ PreviousEnded /\ attempts' <= MaxSessions
  \/ TaskMayRun /\ Stop
  \/ TaskMayRun /\ \E a \in Attempts : GetUserMediaResolves(a)
  \/ TaskMayRun /\ \E a \in Attempts : OnOpen(a)
  \/ TaskMayRun /\ \E a \in Attempts : ConnectResolves(a)
  \/ TaskMayRun /\ \E a \in Attempts : OnError(a)
  \/ TaskMayRun /\ \E a \in Attempts : OnClose(a)
  \/ TaskMayRun /\ \E a \in Attempts, m \in PlaybackMsgs : m.audio = NoAudio /\ OnMessage(a, m)
  \/ TaskMayRun /\ \E a \in Attempts, m \in PlaybackMsgs : OnMessageBegins(a, m)
  \/ TaskMayRun /\ Tick
  \/ TaskMayRun /\ \E n \in sources : Ended(n)
  \/ OnMessageResumes

SpecDelivery == Init /\ [][NextDelivery]_vars

\* Capture: the same attempts, whose handshake may also fail, and the capture
\* callback.
NextCapture ==
  \/ Start /\ PreviousEnded /\ attempts' <= MaxSessions
  \/ Stop
  \/ \E a \in Attempts : GetUserMediaResolves(a)
  \/ \E a \in Attempts : ConnectRejects(a)
  \/ \E a \in Attempts : OnOpen(a)
  \/ \E a \in Attempts : ConnectResolves(a)
  \/ \E a \in Attempts : OnError(a)
  \/ \E a \in Attempts : OnClose(a)
  \/ \E a \in Attempts : OnAudioProcess(a)

SpecCapture == Init /\ [][NextCapture]_vars

\* Sessions one after the other, up to MaxAttempts of them, each ended by the Stop
\* button (line 271: shown while listening) or by the remote side; a message of each
\* kind but the interruption.
NextSessions ==
  \/ Start /\ PreviousEnded
  \/ Stop /\ isListening
  \/ \E a \in Attempts : GetUserMediaResolves(a)
  \/ \E a \in Attempts : OnOpen(a)
  \/ \E a \in Attempts : ConnectResolves(a)
  \/ \E a \in Attempts : OnClose(a)
  \/ \E a \in Attempts, m \in SessionMsgs : OnMessage(a, m)

SpecSessions == Init /\ [][NextSessions]_vars

\* Messages of every kind in turn: up to MaxSessions attempts, one after the other.
NextKinds ==
  \/ Start /\ PreviousEnded /\ attempts' <= MaxSessions
  \/ Stop
  \/ \E a \in Attempts : GetUserMediaResolves(a)
  \/ \E a \in Attempts : OnOpen(a)
  \/ \E a \in Attempts : ConnectResolves(a)
  \/ \E a \in Attempts : OnError(a)
  \/ \E a \in Attempts : OnClose(a)
  \/ \E a \in Attempts, m \in KindMsgs : OnMessage(a, m)

SpecKinds == Init /\ [][NextKinds]_vars

\* Teardown with a call that raises: the same attempts, and a stop() of which one
\* step fails.
NextFaulty ==
  \/ Start /\ PreviousEnded /\ attempts' <= MaxSessions
  \/ Stop
  \/ \E a \in Attempts : GetUserMediaResolves(a)
  \/ \E a \in Attempts : OnOpen(a)
  \/ \E a \in Attempts : ConnectResolves(a)
  \/ \E a \in Attempts : OnError(a)
  \/ \E a \in Attempts : OnClose(a)
  \/ \E a \in Attempts, m \in LossMsgs : OnMessage(a, m)
  \/ \E r \in FailSteps : StopFails(r)

SpecFaulty == Init /\ [][NextFaulty]_vars

\* The codec alone: a sample is captured, encoded as on capture and decoded as on
\* playback.
NextCodec ==
  \/ \E x \in Samples : CaptureSample(x)
  \/ EncodeSample
  \/ DecodeSample

SpecCodec == Init /\ [][NextCodec]_vars

\* ---- properties of the life cycle (under Spec) ----

\* An attempt holds a resource: something it acquired is not yet released.
Held(a) ==
  \/ stream[a] = "live"
  \/ inputCtx[a] = "running"
  \/ outputCtx[a] = "running"
  \/ processor[a] = "connected"
  \/ streamSource[a] = "connected"
  \/ socket[a] \in {"connecting", "open"}

\* C21: when a session ends by a remote close, or start() fails after the
\* microphone was acquired, the attempt that ended holds nothing any more: its
\* microphone stream is stopped, its audio contexts are closed and its capture
\* nodes are disconnected.
C21_TeardownOnEveryRoute ==
  (op.name \in {"onclose", "clientSetupThrows", "connectRejects"} /\ ~isListening)
  => /\ stream[op.att] # "live"
     /\ inputCtx[op.att] # "running" /\ outputCtx[op.att] # "running"
     /\ processor[op.att] # "connected" /\ streamSource[op.att] # "connected"

\* C20: a callback (open, message, error, close) of an attempt that a later
\* start() has superseded leaves the listening flag and the status as they were,
\* releases nothing of the current attempt and takes nothing of it into use: the
\* refs and the objects of the current attempt are unchanged.
C20_StaleCallbacksChangeNothing ==
  [][(op'.name \in {"onopen", "onmessage", "onerror", "onclose"} /\ op'.att < attempts)
       => /\ UNCHANGED <<isListening, status, refs>>
          /\ \A r \in Resources : calls'[attempts][r] = calls[attempts][r]
          /\ UNCHANGED <<stream[attempts], inputCtx[attempts], outputCtx[attempts],
                         processor[attempts], streamSource[attempts],
                         socket[attempts]>>]_vars

\* C1: start() while the controller is listening is a no-op: no second transport
\* session, no second microphone stream, and the state (isListening), the status and
\* the transcript log, like every ref and every object, are left as they were.
C1_StartWhileListeningIsNoOp ==
  [][(isListening /\ op'.name = "start")
       => UNCHANGED <<state, refs, accs, playback, attempts, objects, calls>>]_vars

\* start() has just been called on a listening controller whose session is open.
C1_Witness ==
  /\ op.name = "start" /\ op.att = Null
  /\ isListening
  /\ attempts > 0 /\ socket[attempts] = "open" /\ stream[attempts] = "live"

\* C2: in every reachable state at most one transport session is un-closed and at
\* most one microphone stream is un-stopped.
C2_AtMostOneLiveSession ==
  /\ Cardinality({a \in Attempts : socket[a] \in {"connecting", "open", "closing"}}) <= 1
  /\ Cardinality({a \in Attempts : stream[a] = "live"}) <= 1

\* C3: once stop() has been called during the latest attempt and nothing of that
\* attempt is pending any more (startConversation has returned, the promise of the
\* session is settled, no close waits on it), the controller is not listening and
\* every resource the attempt acquired, before the stop() or after it, has been
\* released, exactly once.
C3_StopReleasesEverything ==
  \A a \in Attempts :
    (/\ a = attempts /\ stopCalled[a]
     /\ pc[a] = "done" /\ promise[a] # "pending" /\ ~closeQueued[a])
    => /\ ~isListening
       /\ ~Held(a)
       /\ \A r \in Resources : calls[a][r] <= 1

\* C4: stop() called twice in succession: no call stops, disconnects or closes a
\* resource more than once, and the second call releases nothing (no resource is
\* touched and no object changes).
C4_SecondStopReleasesNothing ==
  [][(op'.name = "stop")
       => /\ \A a \in Attempts : \A r \in Resources : calls'[a][r] - calls[a][r] <= 1
          /\ (op.name = "stop")
               => /\ calls' = calls
                  /\ UNCHANGED <<refs, objects, sources>>]_vars

\* stop() twice in succession on a controller whose session was open: the first
\* call released the track, the nodes, the contexts and the session, once each.
C4_Witness ==
  /\ op.name = "stop" /\ op.again
  /\ ~isListening /\ status = EndedStatus
  /\ mediaStreamRef = Null /\ sessionPromiseRef = Null
  /\ \E a \in Attempts :
       /\ \A r \in Resources : calls[a][r] = 1
       /\ ~Held(a)

\* C8: once onerror has run, the status the user sees is the error message.
C8_ErrorStatusSurvives ==
  op.name = "onerror" => status = ErrorStatus

\* C9: once the microphone or the connect of the latest attempt has failed, the
\* controller is not listening and shows a failure status; it is not left in
\* Connecting.
C9_FailureGoesBackToIdle ==
  (op.name \in {"getUserMediaRejects", "clientSetupThrows", "connectRejects"}
     /\ op.att = attempts)
  => /\ ~isListening
     /\ status \in {FailedStatus, ErrorStatus}

\* ---- properties of the playback (under SpecPlayback) ----

\* C5, as stated: a buffer enqueued after another one of its session with no
\* interruption between them starts where that one ends, and no buffer starts before the clock at its
\* enqueue.
C5_GaplessAsStated ==
  schedule # <<>> =>
    /\ schedule[1].start >= schedule[1].now
    /\ schedule[1].place = 2 => schedule[1].start = schedule[1].prevEnd

\* C5, amended: a buffer enqueued after another one of its session with no
\* interruption between them starts where that one ends, or at the clock of its enqueue when the clock
\* has passed that end (the queue ran dry); no buffer starts before the clock at its
\* enqueue.
C5_GaplessUnlessStarved ==
  schedule # <<>> =>
    /\ schedule[1].start >= schedule[1].now
    /\ schedule[1].place = 2 =>
         schedule[1].start = Max(schedule[1].prevEnd, schedule[1].now)

\* A second buffer was scheduled after the clock had passed the end of the first.
C5_Witness ==
  /\ op.name = "onmessage" /\ op.audio = "scheduled"
  /\ schedule # <<>>
  /\ schedule[1].place = 2
  /\ schedule[1].now > schedule[1].prevEnd

\* C6: the first start time computed after an interruption, whether its buffer is
\* then scheduled or dropped, is the clock at that enqueue.
C6_StartAtClockAfterInterrupt ==
  [][(afterInterrupt /\ op'.name = "onmessage" /\ op'.audio \in {"dropped", "scheduled"})
       => /\ op'.audio = "scheduled" => schedule'[1].start = currentTime
          /\ (op'.audio = "dropped" /\ ~op'.interrupted) => nextStartTime' = currentTime]_vars

\* A buffer was scheduled first after an interruption, with the clock past zero,
\* and it started at the clock.
C6_Witness ==
  /\ op.name = "onmessage" /\ op.audio = "scheduled"
  /\ schedule # <<>>
  /\ schedule[1].afterInterrupt
  /\ schedule[1].now > 0
  /\ schedule[1].start = schedule[1].now

\* C10: an enqueue never decreases nextStartTime, and a buffer scheduled after
\* another one with no interruption between them does not start before it.
C10_CursorAndStartsMonotonic ==
  [][(op'.name = "onmessage" /\ op'.audio \in {"dropped", "scheduled"})
       => /\ ~op'.interrupted => nextStartTime' >= nextStartTime
          /\ (op'.audio = "scheduled" /\ schedule # <<>> /\ ~schedule[1].cut)
               => schedule'[1].start >= schedule[1].start]_vars

\* A second buffer was scheduled behind a first one that had not yet ended.
C10_Witness ==
  /\ op.name = "onmessage" /\ op.audio = "scheduled" /\ ~op.interrupted
  /\ schedule # <<>>
  /\ schedule[1].place = 2
  /\ schedule[1].start > schedule[1].now
  /\ nextStartTime = schedule[1].start + schedule[1].dur

\* C11: once an interruption has been handled, the active set is empty and no
\* buffer is playing or scheduled any more, the one the interrupting message itself
\* carried included.
C11_InterruptStopsEverything ==
  [][(op'.name = "onmessage" /\ op'.interrupted /\ op'.audio \in {"none", "scheduled"})
       => sources' = {} /\ playing' = {}]_vars

\* The interrupting message carried a buffer that was queued behind one still
\* playing; both are stopped.
C11_Witness ==
  /\ op.name = "onmessage" /\ op.interrupted /\ op.audio = "scheduled"
  /\ schedule # <<>> /\ schedule[1].cut
  /\ schedule[1].place = 2 /\ schedule[1].start > schedule[1].now
  /\ sources = {} /\ playing = {}

\* C19, as stated: neither the loss of a chunk nor the arrival of the next one
\* changes the status, the listening flag or the transport, and the chunk that
\* arrives after the loss starts where the one before the loss ends.
C19_BackToBackAcrossLoss ==
  [][/\ op'.name = "chunkLost" => UNCHANGED <<isListening, status, socket>>
     /\ (op'.name = "onmessage" /\ op'.audio = "scheduled" /\ schedule'[1].afterLoss)
          => /\ UNCHANGED <<isListening, status, socket>>
             /\ schedule'[1].start = schedule'[1].prevEnd]_vars

\* C19, amended: neither the loss of a chunk nor the arrival of the next one
\* changes the status, the listening flag or the transport, and the chunk that
\* arrives after the loss starts where the one before the loss ends, or at the
\* clock of its enqueue when the clock has passed that end.
C19_NoGapKeptForLoss ==
  [][/\ op'.name = "chunkLost" => UNCHANGED <<isListening, status, socket>>
     /\ (op'.name = "onmessage" /\ op'.audio = "scheduled" /\ schedule'[1].afterLoss)
          => /\ UNCHANGED <<isListening, status, socket>>
             /\ schedule'[1].start = Max(schedule'[1].prevEnd, schedule'[1].now)]_vars

\* A chunk was lost behind a buffer still playing; the next chunk that arrived
\* starts where that buffer ends.
C19_Witness ==
  /\ op.name = "onmessage" /\ op.audio = "scheduled"
  /\ schedule # <<>> /\ schedule[1].afterLoss
  /\ schedule[1].start = schedule[1].prevEnd
  /\ schedule[1].start > schedule[1].now

C23_TeardownSurvivesFailure ==
  op.name = "stopFails" =>
    /\ ~isListening
    /\ Cardinality({ref \in {mediaStreamRef, scriptProcessorRef, mediaStreamSourceRef,
                              inputAudioContextRef, outputAudioContextRef} :
                      ref # Null}) <= 1
    /\ sources = {}

\* The part of the teardown a release belongs to: capture, playback, transport.
Phase(r) ==
  CASE r \in {"track", "processor", "source", "inputCtx"} -> 1
    [] r \in {"sources", "outputCtx"} -> 2
    [] r = "session" -> 3

\* C18: what a stop() releases, it releases capture first (tracks, capture nodes,
\* input context), then playback (scheduled buffers, output context), then the
\* transport session.
C18_CaptureThenPlaybackThenTransport ==
  op.name = "stop" =>
    \A i, j \in 1..Len(op.log) : i < j => Phase(op.log[i]) <= Phase(op.log[j])

\* A stop() of an open session with a buffer scheduled has released everything.
C18_Witness ==
  /\ op.name = "stop"
  /\ Len(op.log) = 7
  /\ op.log[1] = "track" /\ op.log[5] = "sources" /\ op.log[7] = "session"

\* C17: a malformed chunk is dropped and the session goes on, and every buffer
\* scheduled starts when it would have started had no malformed chunk ever arrived.
C17_MalformedChunkLeavesNoTrace ==
  /\ (op.name = "onmessage" /\ op.audio = "dropped")
       => (socket[op.att] \in {"open", "closing"} /\ status # ErrorStatus)
  /\ schedule # <<>> => schedule[1].start = schedule[1].idealStart

\* ---- properties of the codec (under SpecCodec) ----

\* C15: the value encoded for a sample of [-1, 1] is its quantisation clamped to
\* -32768..32767: the sample 1 gives 32767 and no sample from 0 up gives a negative
\* value.
C15_EncodeClamps ==
  codec.stage \in {"encoded", "decoded"} =>
    /\ codec.int16 \in -Int16Scale..(Int16Scale - 1)
    /\ codec.x = SampleScale => codec.int16 = Int16Scale - 1
    /\ codec.x >= 0 => codec.int16 >= 0

\* C16: a sample of [-1, 1), encoded and decoded, comes back within 1/32768 of
\* itself.
C16_RoundTripWithinOneStep ==
  (codec.stage = "decoded" /\ codec.x >= -SampleScale /\ codec.x < SampleScale)
  => /\ codec.y - codec.x <= SampleScale \div Int16Scale
     /\ codec.x - codec.y <= SampleScale \div Int16Scale

\* A negative sample between two 16-bit steps, whose low and high bytes differ, has
\* made the round trip and come back changed, by less than one step.
C16_Witness ==
  /\ codec.stage = "decoded"
  /\ codec.x < 0 /\ codec.x > -SampleScale
  /\ codec.y # codec.x
  /\ codec.int16 = Int16At(decode(codec.data))
  /\ decode(codec.data)[1] # decode(codec.data)[2]

\* ---- properties of the capture (under SpecCapture) ----

\* C14: the chunks passed to a session's send are in the order the capture callback
\* produced them, and the chunks that wait on a pending promise wait in that order.
C14_SentInProductionOrder ==
  \A a \in Attempts :
    /\ \A i, j \in 1..Len(sent[a]) : i < j => sent[a][i] < sent[a][j]
    /\ \A i, j \in 1..Len(waiting[a]) : i < j => waiting[a][i] < waiting[a][j]

\* Two chunks produced while the promise was pending have been sent, in their
\* order, when it resolved.
C14_Witness ==
  /\ op.name = "connectResolves"
  /\ sent[op.att] = <<1, 2>> /\ waiting[op.att] = <<>>

\* C24: a chunk is passed to a session's send only while the transport of that
\* session is open, and a chunk produced after stop() was called during its attempt
\* is neither sent nor kept for sending.
C24_SentOnlyWhileActive ==
  [][/\ \A a \in Attempts : sent'[a] # sent[a] => socket[a] = "open"
     /\ (op'.name = "onaudioprocess" /\ stopCalled[op'.att])
          => (sent' = sent /\ waiting' = waiting)]_vars

\* A capacity that the chunks produced in a run can exceed.
QueueBound == MaxChunks - 1

\* C29: the chunks that cannot be sent yet are held in a bounded backlog: however
\* many are produced while the session is not there yet, no more than QueueBound of
\* them wait, the oldest having been dropped.
C29_BacklogIsBounded ==
  \A a \in Attempts : Len(waiting[a]) <= QueueBound

\* ---- properties of the delivery (under SpecDelivery) ----

RECURSIVE TextOf(_, _)
TextOf(speaker, frags) ==
  IF frags = <<>> THEN <<>>
  ELSE (IF Head(frags).speaker = speaker THEN Head(frags).text ELSE <<>>)
         \o TextOf(speaker, Tail(frags))

\* C25: when start() begins a session, both accumulators are empty.
C25_AccumulatorsEmptyAtStart ==
  (op.name = "start" /\ op.att # Null)
  => (currentInputTranscription = <<>> /\ currentOutputTranscription = <<>>)

\* C26: the first buffer scheduled in a session starts at the current time of that
\* session's output clock.
C26_CursorDoesNotCarryOver ==
  [][(/\ op'.name = "onmessage" /\ op'.audio = "scheduled"
      /\ (schedule = <<>> \/ schedule[1].ctx # op'.att))
       => schedule'[1].start = currentTime']_vars

\* C27: the texts of a speaker's entries in the log, one after the other, are that
\* speaker's fragments of the session up to the last TurnComplete, in arrival order,
\* and both accumulators are empty right after a TurnComplete.
C27_NothingLostOrDuplicated ==
  /\ \A speaker \in {"user", "model"} :
       TextOf(speaker, transcripts) = TextOf(speaker, SubSeq(heard.frags, 1, heard.done))
  /\ (op.name = "onmessage" /\ op.turnComplete)
       => (currentInputTranscription = <<>> /\ currentOutputTranscription = <<>>)

\* C28: once stop() has run, or the session was closed by the remote side or by an
\* error, the transcript log is empty.
C28_LogDiscardedWhenClosed ==
  op.name \in {"stop", "onclose", "onerror"} => transcripts = <<>>

\* ---- properties of the message kinds (under SpecKinds) ----

\* C30: a message with no audio and no interruption leaves nextStartTime and the
\* active set as they were, and a message with no fragment and no TurnComplete
\* leaves the transcript log and both accumulators as they were.
C30_KindsDoNotInterfere ==
  [][op'.name = "onmessage"
       => /\ (op'.audio = "none" /\ ~op'.interrupted)
               => UNCHANGED <<nextStartTime, sources>>
          /\ (~op'.text /\ ~op'.turnComplete) => UNCHANGED <<transcripts, accs>>]_vars

\* A chunk has been scheduled while the log held an entry and the user's accumulator
\* a fragment.
C30_Witness ==
  /\ op.name = "onmessage" /\ op.audio = "scheduled" /\ ~op.text /\ ~op.turnComplete
  /\ transcripts # <<>> /\ currentInputTranscription # <<>>
  /\ nextStartTime > 0 /\ sources # {}

\* ---- properties of the transcript (under SpecTranscript) ----

\* C7: a TurnComplete appends, for the fragments that arrived since the TurnComplete
\* before it, the user's entry then the model's, each the concatenation of its
\* speaker's fragments in arrival order, and no entry for a speaker without text.
C7_UserThenModel ==
  [][(op'.name = "onmessage" /\ op'.turnComplete)
       => transcripts' = transcripts
            \o (IF TextOf("user", turnFrags') # <<>>
                THEN <<[speaker |-> "user", text |-> TextOf("user", turnFrags')]>>
                ELSE <<>>)
            \o (IF TextOf("model", turnFrags') # <<>>
                THEN <<[speaker |-> "model", text |-> TextOf("model", turnFrags')]>>
                ELSE <<>>)]_vars

\* The model's fragment arrived before the user's two; the turn's entries are the
\* user's "ab", then the model's "c".
C7_Witness ==
  /\ op.name = "onmessage" /\ op.turnComplete
  /\ Len(turnFrags) = 3 /\ turnFrags[1].speaker = "model"
  /\ transcripts = <<[speaker |-> "user", text |-> <<"a", "b">>],
                     [speaker |-> "model", text |-> <<"c">>]>>

\* C12: within a session (in every step but a start() that begins an attempt) the
\* log keeps its entries as they are and in their order, new ones coming after
\* them, and it changes only in the handling of a TurnComplete: the text of
\* fragments is not in the log while their turn is accumulating.
C12_LogIsAppendOnly ==
  [][(op'.name # "start" \/ op'.att = Null)
       => /\ Len(transcripts') >= Len(transcripts)
          /\ SubSeq(transcripts', 1, Len(transcripts)) = transcripts
          /\ transcripts' # transcripts => (op'.name = "onmessage" /\ op'.turnComplete)]_vars

\* Two turns of the user have been completed, one after the other.
C12_Witness ==
  /\ op.name = "onmessage" /\ op.turnComplete
  /\ Len(transcripts) = 2
  /\ transcripts[1].speaker = "user" /\ transcripts[2].speaker = "user"
  /\ currentInputTranscription = <<>> /\ currentOutputTranscription = <<>>

====
